---- MODULE Spec2Model ----
(***************************************************************************)
(* A model of AdvancedTimetableSolver (src/app.py): the session generator, *)
(* the compilation of sessions and policy flags into a CP-SAT model, the   *)
(* solve call and the decoding of the solver's values into a timetable.    *)
(*                                                                         *)
(* Conventions.  A session id f"S{n}" is the pair <<"S", n>>.  The display *)
(* names (nom) of the entities are left out: no constraint reads them.     *)
(* A CP-SAT integer variable is named by the pair <<call, id>> of the      *)
(* solve call that created it and the session it stands for.               *)
(***************************************************************************)
EXTENDS Integers, Sequences, FiniteSets, TLC

VARIABLES
    days,           \* self.days
    slots_per_day,  \* self.slots_per_day
    total_slots,    \* self.total_slots
    heure_debut,    \* the page's "Heure de debut" number input
    professeurs,    \* self.professeurs
    classes,        \* self.classes
    salles,         \* self.salles
    matieres,       \* self.matieres
    sessions,       \* self.sessions
    model,          \* self.model (cp_model.CpModel): variables, constraints, objective
    solver,         \* self.solver (cp_model.CpSolver): last status and values
    pc,             \* "new" after __init__, "loaded" after load_data_from_dataframes
    calls,          \* number of solve_with_constraints calls made so far
    passes,         \* number of _generate_sessions passes made so far
    constraints,    \* the constraints argument of the last solve_with_constraints call
    result          \* what the last solve_with_constraints call returned

vars == <<days, slots_per_day, total_slots, heure_debut, professeurs, classes, salles,
          matieres, sessions, model, solver, pc, calls, passes, constraints, result>>

(***************************************************************************)
(* Bounds of the model and constants of the program.                       *)
(***************************************************************************)
MaxRows == 2
MaxMatieres == 2
MaxDuree == 2
MaxSessions == 2
MaxCalls == 2
GenMaxProfs == 3
GenMaxClasses == 1
GenMaxSalles == 3
GenMaxMatieres == 1

DefaultMaxDaily == 6
ProfLimit == 2
SalleLimit == 2
FridayIndex == 4
AfternoonSlot == 4
BaseHour == 8
DefaultHeureDebut == 8

days_fr == <<"Lundi", "Mardi", "Mercredi", "Jeudi", "Vendredi", "Samedi", "Dimanche">>

Min(a, b) == IF a <= b THEN a ELSE b

(***************************************************************************)
(* The session generator.                                                  *)
(***************************************************************************)
\* all(eq in s['equipment'] for eq in matiere['required_equipment'])
HasAllEquipment(salle, matiere) == matiere.required_equipment \subseteq salle.equipment

\* [p for p in self.professeurs if matiere['id'] in p['matieres']], or all of them
profs_compatibles(d, matiere) ==
    LET found == SelectSeq(d.professeurs, LAMBDA p : matiere.id \in p.matieres)
    IN  IF found = <<>> THEN d.professeurs ELSE found

\* [s for s in self.salles if all(...)], or all of them
salles_compatibles(d, matiere) ==
    LET found == SelectSeq(d.salles, LAMBDA s : HasAllEquipment(s, matiere))
    IN  IF found = <<>> THEN d.salles ELSE found

\* a slice that keeps one element too many
SliceOneMore(s, n) == SubSeq(s, 1, Min(n + 1, Len(s)))

\* list[:n]
Slice(s, n) == SubSeq(s, 1, Min(n, Len(s)))

\* the session dictionary built in the innermost loop
NewSession(session_id, matiere, prof, classe, salle) ==
    [id |-> <<"S", session_id>>,
     matiere_id |-> matiere.id,
     prof_id |-> prof.id,
     classe_id |-> classe.id,
     salle_id |-> salle.id,
     duree |-> matiere.duree,
     type |-> matiere.type]

\* for salle in salles_compatibles[:2]: append a session, session_id += 1
RECURSIVE LoopSalles(_, _, _, _, _, _)
LoopSalles(acc, matiere, classe, prof, ss, k) ==
    IF k > Len(ss) THEN acc
    ELSE LoopSalles(
            [sessions |-> Append(acc.sessions,
                                 NewSession(acc.session_id, matiere, prof, classe, ss[k])),
             session_id |-> acc.session_id + 1],
            matiere, classe, prof, ss, k + 1)

\* for prof in profs_compatibles[:2]
RECURSIVE LoopProfs(_, _, _, _, _, _)
LoopProfs(acc, d, matiere, classe, ps, j) ==
    IF j > Len(ps) THEN acc
    ELSE LoopProfs(
            LoopSalles(acc, matiere, classe, ps[j],
                       Slice(salles_compatibles(d, matiere), SalleLimit), 1),
            d, matiere, classe, ps, j + 1)

\* for classe in self.classes
RECURSIVE LoopClasses(_, _, _, _)
LoopClasses(acc, d, matiere, i) ==
    IF i > Len(d.classes) THEN acc
    ELSE LoopClasses(
            LoopProfs(acc, d, matiere, d.classes[i],
                      Slice(profs_compatibles(d, matiere), ProfLimit), 1),
            d, matiere, i + 1)

\* for matiere in self.matieres
RECURSIVE LoopMatieres(_, _, _)
LoopMatieres(acc, d, h) ==
    IF h > Len(d.matieres) THEN acc
    ELSE LoopMatieres(LoopClasses(acc, d, d.matieres[h], 1), d, h + 1)

\* _generate_sessions, on the entities d: session_id = 0, then the loops append to
\* self.sessions
generate_sessions(d) ==
    LoopMatieres([sessions |-> d.sessions, session_id |-> 0], d, 1).sessions

(***************************************************************************)
(* Inputs: rows of the four data frames, ids 1..n in row order.            *)
(***************************************************************************)
EquipmentTags == {"labo"}
SessionTypes == {"CM", "TP"}

NumberRows(rows) == [i \in DOMAIN rows |-> [id |-> i] @@ rows[i]]

Rows(lo, hi, fields) == UNION {{NumberRows(r) : r \in [1 .. k -> fields]} : k \in lo .. hi}

ProfFields(taught, caps) == [matieres : taught, max_daily_sessions : caps]
ClasseFields == {[unavailable_slots |-> {}]}
SalleFields == [equipment : SUBSET EquipmentTags]
MatiereFields(types, durs) ==
    [type : types, duree : durs, required_equipment : SUBSET EquipmentTags]

Calendars == {<<1, 1>>, <<1, 2>>, <<2, 2>>}

\* st.sidebar.number_input("Heure de debut", 6, 12, 8)
HeuresDebut == 6 .. 12

(***************************************************************************)
(* __init__ and load_data_from_dataframes.                                 *)
(***************************************************************************)
EmptyModel == [vars |-> {}, constraints |-> {}, objective |-> {}]
NoResult == [kind |-> "not called", timetable |-> <<>>]
NewSolver == [status |-> "NOT_SOLVED", values |-> <<>>]
NoConstraints ==
    [no_friday_afternoon |-> FALSE, limit_daily_sessions |-> FALSE,
     specialized_rooms |-> FALSE]

InitOn(cals, hours) ==
    /\ \E cal \in cals :
        /\ days = cal[1]
        /\ slots_per_day = cal[2]
        /\ total_slots = cal[1] * cal[2]
    /\ heure_debut \in hours
    /\ professeurs = <<>>
    /\ classes = <<>>
    /\ salles = <<>>
    /\ matieres = <<>>
    /\ sessions = <<>>
    /\ model = EmptyModel
    /\ solver = NewSolver
    /\ pc = "new"
    /\ calls = 0
    /\ passes = 0
    /\ constraints = NoConstraints
    /\ result = NoResult

Init == InitOn(Calendars, {DefaultHeureDebut})

\* a load that keeps the sessions of the pass before
KeptSessions(old) == old

\* self.sessions = []
ResetSessions(old) == <<>>

load_data_from_dataframes(profs, cls, sls, mats) ==
    /\ professeurs' = profs
    /\ classes' = cls
    /\ salles' = sls
    /\ matieres' = mats
    /\ sessions' = generate_sessions(
            [professeurs |-> profs, classes |-> cls, salles |-> sls, matieres |-> mats,
             sessions |-> ResetSessions(sessions)])
    /\ pc' = "loaded"
    /\ passes' = passes + 1
    /\ UNCHANGED <<days, slots_per_day, total_slots, heure_debut, model, solver, calls,
                   constraints, result>>

GenLoad ==
    /\ pc = "new"
    /\ \E profs \in Rows(0, GenMaxProfs,
                            ProfFields(SUBSET (1 .. GenMaxMatieres), {DefaultMaxDaily})),
          cls \in Rows(0, GenMaxClasses, ClasseFields),
          sls \in Rows(0, GenMaxSalles, SalleFields),
          mats \in Rows(0, GenMaxMatieres, MatiereFields({"TP"}, {1})) :
            load_data_from_dataframes(profs, cls, sls, mats)

\* a second load of the same four data frames
GenReload ==
    /\ pc = "loaded"
    /\ passes = 1
    /\ load_data_from_dataframes(professeurs, classes, salles, matieres)

NextGen == GenLoad \/ GenReload

SpecGen == InitOn({<<5, 8>>}, {DefaultHeureDebut}) /\ [][NextGen]_vars

(***************************************************************************)
(* The compilation of the sessions into the CP-SAT model.  A constraint is *)
(* a record [kind, items, lo, hi, cap]; items is a set of pairs            *)
(* <<variable, duration>>.                                                 *)
(*   NoOverlap: AddNoOverlap over the intervals (var, duration, var+dur);  *)
(*   NotEqual:  Add(var != lo);                                            *)
(*   DailyCap:  for one teacher and one day [lo, hi], a fresh Boolean      *)
(*              is_this_day per item with its four OnlyEnforceIf           *)
(*              constraints, and Add(sum(is_this_day) <= cap).             *)
(***************************************************************************)
Range(s) == {s[i] : i \in DOMAIN s}

\* session_vars of one solve call: session id -> its new integer variable
SessionVars(call, sess) == [sid \in {s.id : s \in Range(sess)} |-> <<call, sid>>]

\* _add_no_overlap_constraints
add_no_overlap_constraints(session_vars, sess) ==
    IF Len(sess) <= 1 THEN {}
    ELSE {[kind |-> "NoOverlap",
           items |-> {<<session_vars[s.id], s.duree>> : s \in Range(sess)},
           lo |-> 0, hi |-> 0, cap |-> 0]}

\* _add_basic_constraints: one no-overlap per professeur, per salle, per classe
add_basic_constraints(session_vars, d) ==
    UNION ({add_no_overlap_constraints(session_vars,
                SelectSeq(d.sessions, LAMBDA s : s.prof_id = prof.id))
                : prof \in Range(d.professeurs)}
           \cup
           {add_no_overlap_constraints(session_vars,
                SelectSeq(d.sessions, LAMBDA s : s.salle_id = salle.id))
                : salle \in Range(d.salles)}
           \cup
           {add_no_overlap_constraints(session_vars,
                SelectSeq(d.sessions, LAMBDA s : s.classe_id = classe.id))
                : classe \in Range(d.classes)})

\* range(4*self.slots_per_day + 4, (4+1)*self.slots_per_day)
friday_afternoon_slots(spd) ==
    (FridayIndex * spd + AfternoonSlot) .. ((FridayIndex + 1) * spd - 1)

\* if constraints.get('no_friday_afternoon'): Add(slot_var != slot) for each slot
friday_constraints(session_vars, d, cons) ==
    IF cons.no_friday_afternoon
    THEN {[kind |-> "NotEqual", items |-> {<<session_vars[s.id], 0>>},
           lo |-> slot, hi |-> slot, cap |-> 0]
            : s \in Range(d.sessions), slot \in friday_afternoon_slots(d.slots_per_day)}
    ELSE {}

\* if constraints.get('limit_daily_sessions'): per professeur and per day
daily_constraints(session_vars, d, cons) ==
    IF cons.limit_daily_sessions
    THEN UNION {
            LET prof_sessions == SelectSeq(d.sessions, LAMBDA s : s.prof_id = prof.id)
            IN  IF prof_sessions = <<>> THEN {}
                ELSE {[kind |-> "DailyCap",
                       items |-> {<<session_vars[s.id], 0>> : s \in Range(prof_sessions)},
                       lo |-> day * d.slots_per_day,
                       hi |-> (day + 1) * d.slots_per_day - 1,
                       cap |-> prof.max_daily_sessions]}
            : prof \in Range(d.professeurs), day \in 0 .. (d.days - 1)}
    ELSE {}

\* if constraints.get('specialized_rooms'): the branch for a TP session whose salle
\* lacks required equipment only reads slot_var; it adds no constraint
specialized_constraints(session_vars, d, cons) == {}

\* _add_advanced_constraints
add_advanced_constraints(session_vars, d, cons) ==
    friday_constraints(session_vars, d, cons)
    \cup daily_constraints(session_vars, d, cons)
    \cup specialized_constraints(session_vars, d, cons)

(***************************************************************************)
(* The meaning of the constraints, for an assignment a of the variables.   *)
(***************************************************************************)
\* a no-overlap that only keeps the start slots apart
NoOverlapStartsOnly(a, c) ==
    \A x \in c.items, y \in c.items : x # y => a[x[1]] # a[y[1]]

\* AddNoOverlap: the intervals [a[v], a[v] + duration) are pairwise disjoint
NoOverlapHolds(a, c) ==
    \A x \in c.items, y \in c.items :
        x # y => (a[x[1]] + x[2] <= a[y[1]] \/ a[y[1]] + y[2] <= a[x[1]])

\* Add(slot_var != slot)
NotEqualHolds(a, c) == \A x \in c.items : a[x[1]] # c.lo

\* the values of is_this_day that the four OnlyEnforceIf constraints admit for a start v
AdmissibleIndicators(v, lo, hi) ==
    {b \in BOOLEAN : /\ b => (v >= lo /\ v <= hi)
                     /\ ~b => (v < lo /\ v > hi)}

\* the indicators linked, their sum left uncapped
DailyCapUncapped(a, c) ==
    LET vs == {x[1] : x \in c.items}
    IN  \E ind \in [vs -> BOOLEAN] :
            \A v \in vs : ind[v] \in AdmissibleIndicators(a[v], c.lo, c.hi)

\* Add(sum(day_sessions) <= max_daily), with the indicators linked as above
DailyCapHolds(a, c) ==
    LET vs == {x[1] : x \in c.items}
    IN  \E ind \in [vs -> BOOLEAN] :
            /\ \A v \in vs : ind[v] \in AdmissibleIndicators(a[v], c.lo, c.hi)
            /\ Cardinality({v \in vs : ind[v]}) <= c.cap

Holds(a, c) ==
    CASE c.kind = "NoOverlap" -> NoOverlapHolds(a, c)
      [] c.kind = "NotEqual" -> NotEqualHolds(a, c)
      [] c.kind = "DailyCap" -> DailyCapHolds(a, c)

\* NewIntVar(0, self.total_slots - 1, ...)
Domain(n) == 0 .. (n - 1)

\* Variables of different solve calls share no constraint, so the model's solutions
\* are the products of the solutions of each call's part.
CallsOf(m) == {v[1] : v \in m.vars}
VarsOfCall(m, k) == {v \in m.vars : v[1] = k}
ConstraintsOfCall(m, k) == {c \in m.constraints : \A x \in c.items : x[1][1] = k}
SolutionsOfCall(m, k, n) ==
    {a \in [VarsOfCall(m, k) -> Domain(n)] : \A c \in ConstraintsOfCall(m, k) : Holds(a, c)}

\* the solutions of the whole model, projected on the variables of call k
Solutions(m, k, n) ==
    IF \A j \in CallsOf(m) \ {k} : SolutionsOfCall(m, j, n) # {}
    THEN SolutionsOfCall(m, k, n)
    ELSE {}

\* sum([session_vars[s['id']] for s in self.sessions])
RECURSIVE SumValues(_, _, _)
SumValues(a, obj, i) == IF i > Len(obj) THEN 0 ELSE a[obj[i]] + SumValues(a, obj, i + 1)

ObjectiveValue(a, obj) == SumValues(a, obj, 1)

(***************************************************************************)
(* _extract_solution.                                                      *)
(***************************************************************************)
ScheduleRecord(session, slot_value, spd) ==
    LET day == slot_value \div spd
        slot_in_day == slot_value % spd
        debut == BaseHour + slot_in_day
        heure_fin == debut + session.duree
    IN  [ID_Session |-> session.id,
         Jour |-> days_fr[day + 1],
         Creneau |-> <<debut, heure_fin>>,
         Classe |-> session.classe_id,
         Matiere |-> session.matiere_id,
         Type |-> session.type,
         Professeur |-> session.prof_id,
         Salle |-> session.salle_id,
         Duree |-> session.duree,
         Jour_Index |-> day,
         Creneau_Index |-> slot_in_day]

extract_solution(sess, session_vars, values, spd) ==
    LET planned == SelectSeq(sess, LAMBDA s : values[session_vars[s.id]] >= 0)
    IN  [i \in 1 .. Len(planned) |->
            ScheduleRecord(planned[i], values[session_vars[planned[i].id]], spd)]

(***************************************************************************)
(* solve_with_constraints.                                                 *)
(***************************************************************************)
Policies ==
    [no_friday_afternoon : BOOLEAN, limit_daily_sessions : BOOLEAN,
     specialized_rooms : BOOLEAN]

Compiled(call, cons) ==
    LET d == [professeurs |-> professeurs, classes |-> classes, salles |-> salles,
              matieres |-> matieres, sessions |-> sessions,
              days |-> days, slots_per_day |-> slots_per_day]
        session_vars == SessionVars(call, sessions)
    IN  [vars |-> model.vars \cup {session_vars[sid] : sid \in DOMAIN session_vars},
         constraints |-> model.constraints
                            \cup add_basic_constraints(session_vars, d)
                            \cup add_advanced_constraints(session_vars, d, cons),
         objective |-> [i \in 1 .. Len(sessions) |-> session_vars[sessions[i].id]]]

\* self.solver.Solve(self.model): OPTIMAL with a best solution, FEASIBLE with any
\* solution, INFEASIBLE when there is none, UNKNOWN when the time limit ends the search
Outcomes(m, call, n) ==
    LET sols == Solutions(m, call, n)
        best == {a \in sols : \A b \in sols :
                    ObjectiveValue(b, m.objective) <= ObjectiveValue(a, m.objective)}
    IN  {[status |-> "OPTIMAL", values |-> a] : a \in best}
        \cup {[status |-> "FEASIBLE", values |-> a] : a \in sols}
        \cup (IF sols = {} THEN {[status |-> "INFEASIBLE", values |-> <<>>]} ELSE {})
        \cup {[status |-> "UNKNOWN", values |-> <<>>]}

None == [kind |-> "None", timetable |-> <<>>]

solve_with_constraints(cons) ==
    /\ pc = "loaded"
    /\ LET call == calls + 1
           m == Compiled(call, cons)
       IN  /\ model' = m
           /\ calls' = call
           /\ constraints' = cons
           /\ \E out \in Outcomes(m, call, total_slots) :
                /\ solver' = out
                /\ result' =
                    IF out.status \in {"OPTIMAL", "FEASIBLE"}
                    THEN [kind |-> "timetable",
                          timetable |-> extract_solution(sessions,
                                            SessionVars(call, sessions),
                                            out.values, slots_per_day)]
                    ELSE None
    /\ UNCHANGED <<days, slots_per_day, total_slots, heure_debut, professeurs, classes,
                   salles, matieres, sessions, pc, passes>>

\* the data sets of the solver runs: at most MaxSessions sessions to place
Load ==
    /\ pc = "new"
    /\ \E profs \in Rows(1, MaxRows, ProfFields({1 .. MaxMatieres}, {1, DefaultMaxDaily})),
          cls \in Rows(1, MaxRows, ClasseFields),
          sls \in Rows(1, MaxRows, SalleFields),
          mats \in Rows(1, MaxMatieres, MatiereFields({"TP"}, 1 .. MaxDuree)) :
            /\ load_data_from_dataframes(profs, cls, sls, mats)
            /\ Len(sessions') <= MaxSessions

\* one solve per solver object, as the page does on each run
Solve ==
    /\ pc = "loaded"
    /\ calls = 0
    /\ \E cons \in Policies : solve_with_constraints(cons)

Next == Load \/ Solve

Spec == Init /\ [][Next]_vars

\* a whole week of five slots a day, one session to place
LoadWeek ==
    /\ pc = "new"
    /\ \E profs \in Rows(1, 1, ProfFields({1 .. 1}, {1, DefaultMaxDaily})),
          cls \in Rows(1, 1, ClasseFields),
          sls \in Rows(1, 1, SalleFields),
          mats \in Rows(1, 1, MatiereFields(SessionTypes, 1 .. MaxDuree)) :
            load_data_from_dataframes(profs, cls, sls, mats)

NextWeek == LoadWeek \/ Solve

SpecWeek == InitOn({<<5, 5>>}, HeuresDebut) /\ [][NextWeek]_vars

\* one solver object solved up to MaxCalls times, each time under any policy
SolveAgain ==
    /\ pc = "loaded"
    /\ calls < MaxCalls
    /\ \E cons \in Policies : solve_with_constraints(cons)

NextTwice == LoadWeek \/ SolveAgain

SpecTwice == InitOn({<<5, 5>>}, {DefaultHeureDebut}) /\ [][NextTwice]_vars

(***************************************************************************)
(* Properties.                                                             *)
(***************************************************************************)
Returned == result.kind = "timetable"
Records == Range(result.timetable)
SessionOf(rec) == CHOOSE s \in Range(sessions) : s.id = rec.ID_Session
StartOf(rec) == rec.Jour_Index * slots_per_day + rec.Creneau_Index
EndOf(rec) == StartOf(rec) + rec.Duree
ShareResource(s1, s2) ==
    \/ s1.prof_id = s2.prof_id
    \/ s1.salle_id = s2.salle_id
    \/ s1.classe_id = s2.classe_id

\* C1: in a returned schedule, two distinct sessions that share a teacher, a room or a
\* class have disjoint intervals
C1_NoOverlap ==
    Returned =>
        \A r1 \in Records, r2 \in Records :
            (r1.ID_Session # r2.ID_Session /\ ShareResource(SessionOf(r1), SessionOf(r2)))
                => (EndOf(r1) <= StartOf(r2) \/ EndOf(r2) <= StartOf(r1))

\* a returned schedule with two sessions of different durations on one resource
C1_Witness ==
    /\ Returned
    /\ \E r1 \in Records, r2 \in Records :
        /\ r1.ID_Session # r2.ID_Session
        /\ ShareResource(SessionOf(r1), SessionOf(r2))
        /\ r1.Duree # r2.Duree

\* C2: in a returned schedule every session's interval lies within one day and within
\* the days*slots_per_day slots of the week
C2_WithinOneDay ==
    Returned =>
        \A r \in Records :
            /\ StartOf(r) \div slots_per_day = (EndOf(r) - 1) \div slots_per_day
            /\ EndOf(r) <= days * slots_per_day

\* the slots of Friday afternoon: day 4, slot of the day 4 and later
ForbiddenSlots ==
    {4 * slots_per_day + k : k \in 4 .. (slots_per_day - 1)}

\* C3: with no_friday_afternoon enabled, no session of a returned schedule covers a
\* forbidden slot
C3_NoForbiddenSlotCovered ==
    (Returned /\ constraints.no_friday_afternoon) =>
        \A r \in Records :
            \A slot \in StartOf(r) .. (EndOf(r) - 1) : slot \notin ForbiddenSlots

\* the number of a teacher's sessions of the returned schedule that start on a day
StartsOnDay(prof, day) ==
    Cardinality({r \in Records :
                    /\ SessionOf(r).prof_id = prof.id
                    /\ StartOf(r) >= day * slots_per_day
                    /\ StartOf(r) <= (day + 1) * slots_per_day - 1})

\* C4: with limit_daily_sessions enabled, in a returned schedule no teacher has more
\* sessions starting on one day than the teacher's max_daily_sessions
C4_DailyCap ==
    (Returned /\ constraints.limit_daily_sessions) =>
        \A prof \in Range(professeurs), day \in 0 .. (days - 1) :
            StartsOnDay(prof, day) <= prof.max_daily_sessions

\* a returned schedule under the policy where a teacher has two sessions on one day
C4_Witness ==
    /\ Returned
    /\ constraints.limit_daily_sessions
    /\ \E prof \in Range(professeurs), day \in 0 .. (days - 1) :
        StartsOnDay(prof, day) >= 2

\* C5: the objective the solve maximises is the number of sessions scheduled: its
\* value at the returned assignment is the number of records of the schedule
C5_ObjectiveCountsSessions ==
    Returned =>
        ObjectiveValue(solver.values, model.objective) = Len(result.timetable)

\* the sets of sessions that can be placed together under the policy of the last call
Sublist(S) == SelectSeq(sessions, LAMBDA s : s \in S)
PlaceableTogether(S) ==
    LET d == [professeurs |-> professeurs, classes |-> classes, salles |-> salles,
              matieres |-> matieres, sessions |-> Sublist(S),
              days |-> days, slots_per_day |-> slots_per_day]
        sv == SessionVars(1, Sublist(S))
        m == [vars |-> {sv[sid] : sid \in DOMAIN sv},
              constraints |-> add_basic_constraints(sv, d)
                                \cup add_advanced_constraints(sv, d, constraints),
              objective |-> <<>>]
    IN  Solutions(m, 1, total_slots) # {}

\* C6: when the sessions cannot all be placed at once but some of them can, a solve
\* that ran to its end returns a schedule with the sessions it could place
C6_PartialSchedule ==
    (/\ calls > 0
     /\ solver.status # "UNKNOWN"
     /\ ~PlaceableTogether(Range(sessions))
     /\ \E s \in Range(sessions) : PlaceableTogether({s}))
        => (/\ Returned
            /\ Len(result.timetable) > 0
            /\ PlaceableTogether({SessionOf(r) : r \in Records}))

\* C7: no schedule record is returned for a session longer than a day
C7_NoRecordLongerThanDay ==
    Returned => \A r \in Records : r.Duree <= slots_per_day

\* the teachers whose subject set contains the subject of the session
TeachesSubject(prof_id, matiere_id) ==
    \E p \in Range(professeurs) : p.id = prof_id /\ matiere_id \in p.matieres

\* a session dictionary carries a Fallback annotation when it has such a key
HasFallbackAnnotation(s) == "fallback" \in DOMAIN s

RowWithId(rows, id) == CHOOSE r \in Range(rows) : r.id = id

\* the room of the session carries every equipment tag its subject requires
RoomEquipped(s) ==
    RowWithId(matieres, s.matiere_id).required_equipment
        \subseteq RowWithId(salles, s.salle_id).equipment

\* C8: every generated session has a teacher of its subject unless it carries a
\* Fallback annotation, and a session made from a fall-back to all teachers or to all
\* rooms carries one
C8_TeacherCompatibleOrFlagged ==
    pc = "loaded" =>
        \A s \in Range(sessions) :
            /\ TeachesSubject(s.prof_id, s.matiere_id) \/ HasFallbackAnnotation(s)
            /\ RoomEquipped(s) \/ HasFallbackAnnotation(s)

\* C9: with specialized_rooms enabled, no returned schedule places a session in a room
\* that lacks equipment its subject requires
C9_EquipmentRespected ==
    (Returned /\ constraints.specialized_rooms) =>
        \A r \in Records : RoomEquipped(SessionOf(r))

\* the candidates of the claim: the rows that qualify, or all rows when none does
Qualified(rows, ok) ==
    LET found == SelectSeq(rows, LAMBDA r : r \in ok) IN IF found = <<>> THEN rows ELSE found
FirstTwo(s) == [i \in 1 .. (IF Len(s) < 2 THEN Len(s) ELSE 2) |-> s[i]]

\* C10: each (subject, class) pair yields exactly one session per (teacher, room) pair
\* of the first two candidate teachers and the first two candidate rooms
C10_OneSessionPerPair ==
    pc = "loaded" =>
        \A h \in DOMAIN matieres, i \in DOMAIN classes :
            LET m == matieres[h]
                T == FirstTwo(Qualified(professeurs,
                        {p \in Range(professeurs) : m.id \in p.matieres}))
                R == FirstTwo(Qualified(salles,
                        {s \in Range(salles) :
                            \A eq \in m.required_equipment : eq \in s.equipment}))
                block == SelectSeq(sessions,
                            LAMBDA s : s.matiere_id = m.id /\ s.classe_id = classes[i].id)
            IN  /\ Len(block) = Len(T) * Len(R)
                /\ Len(block) <= 4
                /\ \A j \in DOMAIN T, k \in DOMAIN R :
                    Cardinality({x \in DOMAIN block :
                                    /\ block[x].prof_id = T[j].id
                                    /\ block[x].salle_id = R[k].id}) = 1

\* a pair with three candidate teachers and three candidate rooms: four sessions
C10_Witness ==
    /\ pc = "loaded"
    /\ Len(professeurs) >= 3
    /\ Len(salles) >= 3
    /\ Len(matieres) >= 1
    /\ \A p \in Range(professeurs) : matieres[1].id \in p.matieres
    /\ \A s \in Range(salles) : matieres[1].required_equipment \subseteq s.equipment
    /\ Len(sessions) = 4 * Len(classes)
    /\ Len(classes) >= 1

\* C11: the ids of one generation pass are S0, S1, ... in emission order, so pairwise
\* distinct, and a pass over the same entities yields the same sessions with the same ids
C11_IdsCountedAndRepeatable ==
    /\ [](pc = "loaded" =>
            /\ \A i \in DOMAIN sessions : sessions[i].id = <<"S", i - 1>>
            /\ \A i \in DOMAIN sessions, j \in DOMAIN sessions :
                    i # j => sessions[i].id # sessions[j].id)
    /\ [][(/\ pc = "loaded"
           /\ passes' = passes + 1
           /\ professeurs' = professeurs
           /\ classes' = classes
           /\ salles' = salles
           /\ matieres' = matieres) => sessions' = sessions]_vars

\* a second pass over the same entities, with several sessions emitted
C11_Witness ==
    /\ passes = 2
    /\ Len(sessions) >= 3

\* the start slot the solver gave to the session of a record
SlotValueOf(rec) == solver.values[<<calls, rec.ID_Session>>]

\* C12: the record of a session with start slot s has day index s div slots_per_day,
\* slot index s mod slots_per_day, start hour the configured base hour plus the slot
\* index, and end hour the start hour plus the duration
C12_DecodedRecord ==
    Returned =>
        \A r \in Records :
            /\ r.Jour_Index = SlotValueOf(r) \div slots_per_day
            /\ r.Creneau_Index = SlotValueOf(r) % slots_per_day
            /\ r.Creneau[1] = heure_debut + r.Creneau_Index
            /\ r.Creneau[2] = r.Creneau[1] + r.Duree

\* the daily cap as counted on the start slots themselves
CapRespected(a, c) ==
    Cardinality({x \in c.items : a[x[1]] >= c.lo /\ a[x[1]] <= c.hi}) <= c.cap

\* the assignments of the last call that respect every other constraint and every cap
CapRespectingAssignments ==
    {a \in [VarsOfCall(model, calls) -> Domain(total_slots)] :
        \A c \in ConstraintsOfCall(model, calls) :
            IF c.kind = "DailyCap" THEN CapRespected(a, c) ELSE Holds(a, c)}

\* C13: with limit_daily_sessions enabled, every start slot of the domain has, for every
\* (teacher, day), exactly one admissible indicator value, true iff the slot is on the
\* day; so a solve is not infeasible while some assignment respects non-overlap and caps
C13_IndicatorsExcludeNoSlot ==
    (calls > 0 /\ constraints.limit_daily_sessions) =>
        /\ \A c \in ConstraintsOfCall(model, calls) :
                c.kind = "DailyCap" =>
                    \A v \in Domain(total_slots) :
                        AdmissibleIndicators(v, c.lo, c.hi) = {v >= c.lo /\ v <= c.hi}
        /\ CapRespectingAssignments # {} => solver.status # "INFEASIBLE"

\* C14: after any sequence of solves on one solver the model holds only the variables
\* and constraints compiled by the last call, so that a solve is infeasible only when
\* the constraints of its own sessions and policy are
C14_NoStateCrossesSolves ==
    calls > 0 =>
        /\ model.vars = VarsOfCall(model, calls)
        /\ model.constraints = ConstraintsOfCall(model, calls)
        /\ SolutionsOfCall(model, calls, total_slots) # {} => solver.status # "INFEASIBLE"

====
